---------------------------- MODULE Spec2Model ----------------------------
(***************************************************************************)
(* Model of the Uniswap V4 address-challenge miner (src/src/main.rs):      *)
(* create2_addr and compute_score as operators, and main's worker threads  *)
(* sharing the Mutex-protected best_address as a state machine.            *)
(*                                                                         *)
(* Byte arrays are sequences of integers 0..255 (index 1 is Rust index 0). *)
(***************************************************************************)
EXTENDS Integers, Sequences, FiniteSets, TLC

VARIABLES
  num_threads,   \* main: the resolved thread count (args.threads / num_cpus)
  handles,       \* main: the JoinHandles collected so far (thread indices)
  best_address,  \* the tuple inside Arc<Mutex<..>>: <<address, score>>
  locked_by,     \* the threads holding a MutexGuard of best_address
  pc,            \* per thread: its position in the closure
  rand,          \* per thread: the u64 counter
  pepper,        \* per thread: the 4 random bytes
  salt,          \* per thread: the salt of the current iteration
  address,       \* per thread: the derived address of the current iteration
  score,         \* per thread: the score of the current iteration
  stdout,        \* the "New best address" lines printed so far
  counters,      \* history, per thread: the rand values its salts were built from
  attempts,      \* history: <<address, score, salt>> of every comparison, in order
  replacements,  \* history: <<address, score, salt>> of every replacement
  t_pc,          \* scoring harness: "idle", "input" or "scored"
  t_address,     \* scoring harness: the address under evaluation
  t_score,       \* scoring harness: compute_score's result
  t_trace,       \* scoring harness: what each iteration of the loop added
  poisoned,      \* whether a thread panicked while holding the MutexGuard
  main_pc,       \* main: "spawn", "join", "panicked" or "returned"
  join_i         \* main: the number of handles joined so far

vars == <<num_threads, handles, best_address, locked_by, pc, rand, pepper, salt,
          address, score, stdout, counters, attempts, replacements, t_pc, t_address,
          t_score, t_trace, poisoned, main_pc, join_i>>

threadVars == <<num_threads, handles, best_address, locked_by, pc, rand, pepper,
                salt, address, score, stdout, counters, attempts, replacements,
                poisoned, main_pc, join_i>>

harnessVars == <<t_pc, t_address, t_score, t_trace>>

failVars == <<poisoned, main_pc, join_i>>

-----------------------------------------------------------------------------
(* Bounds of the model. *)

\* the largest thread count main is started with
MaxThreads == 2
\* the number of loop iterations each thread is followed for
MaxIter == 2
\* scoring harness: the longest run of 4-nibbles placed after the leading zeros
MaxRun == 6
\* scoring harness: the number of free nibbles placed after that run
MidLen == 2

\* the values thread_rng() may fill a pepper with
Peppers == << <<0, 0, 202, 192>>, <<0, 0, 4, 230>> >>

-----------------------------------------------------------------------------
(* Helpers on byte arrays. *)

\* forces a sequence given by a function constructor into a tuple
Eager(s) == SubSeq(s, 1, Len(s))

Zeros(n) == Eager([i \in 1..n |-> 0])

\* 2^s for s in 0..8
Pow2(s) == <<1, 2, 4, 8, 16, 32, 64, 128, 256>>[s + 1]

RECURSIVE XorBits(_, _, _)
XorBits(a, b, n) ==
  IF n = 0 THEN 0
  ELSE ((a + b) % 2) + 2 * XorBits(a \div 2, b \div 2, n - 1)

RECURSIVE AndNotBits(_, _, _)
AndNotBits(a, b, n) ==
  IF n = 0 THEN 0
  ELSE ((1 - (a % 2)) * (b % 2)) + 2 * AndNotBits(a \div 2, b \div 2, n - 1)

\* a ^ b and (!a) & b on nibbles, tabulated
Xor4 == Eager([a \in 1..16 |-> Eager([b \in 1..16 |-> XorBits(a - 1, b - 1, 4)])])
AndNot4 == Eager([a \in 1..16 |-> Eager([b \in 1..16 |-> AndNotBits(a - 1, b - 1, 4)])])

\* a ^ b on bytes
Xor(a, b) ==
  16 * Xor4[(a \div 16) + 1][(b \div 16) + 1] + Xor4[(a % 16) + 1][(b % 16) + 1]

\* (!a) & b on bytes
AndNot(a, b) ==
  16 * AndNot4[(a \div 16) + 1][(b \div 16) + 1] + AndNot4[(a % 16) + 1][(b % 16) + 1]

\* hex::decode: one digit, either case
HexVal(c) ==
  CASE c = "0" -> 0 [] c = "1" -> 1 [] c = "2" -> 2 [] c = "3" -> 3
    [] c = "4" -> 4 [] c = "5" -> 5 [] c = "6" -> 6 [] c = "7" -> 7
    [] c = "8" -> 8 [] c = "9" -> 9
    [] c \in {"a", "A"} -> 10 [] c \in {"b", "B"} -> 11 [] c \in {"c", "C"} -> 12
    [] c \in {"d", "D"} -> 13 [] c \in {"e", "E"} -> 14 [] c \in {"f", "F"} -> 15

\* hex::decode: two digits per byte, high nibble first
HexDecode(s) ==
  Eager([i \in 1..(Len(s) \div 2) |-> 16 * HexVal(s[2 * i - 1]) + HexVal(s[2 * i])])

HexDigits ==
  <<"0", "1", "2", "3", "4", "5", "6", "7", "8", "9", "a", "b", "c", "d", "e", "f">>

\* hex::encode: lower-case, two digits per byte, high nibble first
HexEncode(b) ==
  Eager([i \in 1..(2 * Len(b)) |->
    LET byte == b[(i + 1) \div 2] IN
    IF i % 2 = 1 THEN HexDigits[(byte \div 16) + 1] ELSE HexDigits[(byte % 16) + 1]])

-----------------------------------------------------------------------------
(* The hash of tiny_keccak: Keccak-f[1600] on a 200-byte state, lane (x, y) *)
(* in bytes 8*(x+5y) .. 8*(x+5y)+7, least significant byte first.          *)

\* the round constants, as little-endian bytes
RC ==
  << <<1, 0, 0, 0, 0, 0, 0, 0>>,         <<130, 128, 0, 0, 0, 0, 0, 0>>,
     <<138, 128, 0, 0, 0, 0, 0, 128>>,   <<0, 128, 0, 128, 0, 0, 0, 128>>,
     <<139, 128, 0, 0, 0, 0, 0, 0>>,     <<1, 0, 0, 128, 0, 0, 0, 0>>,
     <<129, 128, 0, 128, 0, 0, 0, 128>>, <<9, 128, 0, 0, 0, 0, 0, 128>>,
     <<138, 0, 0, 0, 0, 0, 0, 0>>,       <<136, 0, 0, 0, 0, 0, 0, 0>>,
     <<9, 128, 0, 128, 0, 0, 0, 0>>,     <<10, 0, 0, 128, 0, 0, 0, 0>>,
     <<139, 128, 0, 128, 0, 0, 0, 0>>,   <<139, 0, 0, 0, 0, 0, 0, 128>>,
     <<137, 128, 0, 0, 0, 0, 0, 128>>,   <<3, 128, 0, 0, 0, 0, 0, 128>>,
     <<2, 128, 0, 0, 0, 0, 0, 128>>,     <<128, 0, 0, 0, 0, 0, 0, 128>>,
     <<10, 128, 0, 0, 0, 0, 0, 0>>,      <<10, 0, 0, 128, 0, 0, 0, 128>>,
     <<129, 128, 0, 128, 0, 0, 0, 128>>, <<128, 128, 0, 0, 0, 0, 0, 128>>,
     <<1, 0, 0, 128, 0, 0, 0, 0>>,       <<8, 128, 0, 128, 0, 0, 0, 128>> >>

\* the rotation offsets, indexed by lane x + 5y
RHO ==
  <<0, 1, 62, 28, 27, 36, 44, 6, 55, 20, 3, 10, 43, 25, 39, 41, 45, 15, 21, 8,
    18, 2, 61, 56, 14>>

\* byte j (0 = least significant) of lane (x, y) of the state A
LaneByte(A, x, y, j) == A[8 * (x + 5 * y) + j + 1]

\* byte j of the lane held in S[base+1 .. base+8], rotated left by r bits
RotByte(S, base, r, j) ==
  LET q == r \div 8
      s == r % 8
      hi == S[base + ((j + 8 - q) % 8) + 1]
      lo == S[base + ((j + 15 - q) % 8) + 1]
  IN IF s = 0 THEN hi ELSE ((hi * Pow2(s)) % 256) + (lo \div Pow2(8 - s))

\* one round: theta, rho and pi, chi, iota
Round(A, r) ==
  LET C == Eager([i \in 1..40 |->
             LET x == (i - 1) \div 8
                 j == (i - 1) % 8
             IN Xor(Xor(Xor(Xor(LaneByte(A, x, 0, j), LaneByte(A, x, 1, j)),
                            LaneByte(A, x, 2, j)), LaneByte(A, x, 3, j)),
                    LaneByte(A, x, 4, j))])
      D == Eager([i \in 1..40 |->
             LET x == (i - 1) \div 8
                 j == (i - 1) % 8
             IN Xor(C[8 * ((x + 4) % 5) + j + 1], RotByte(C, 8 * ((x + 1) % 5), 1, j))])
      E == Eager([i \in 1..200 |->
             LET x == ((i - 1) \div 8) % 5
                 j == (i - 1) % 8
             IN Xor(A[i], D[8 * x + j + 1])])
      B == Eager([i \in 1..200 |->
             LET l == (i - 1) \div 8
                 j == (i - 1) % 8
                 x == ((l % 5) + 3 * (l \div 5)) % 5
                 y == l % 5
             IN RotByte(E, 8 * (x + 5 * y), RHO[x + 5 * y + 1], j)])
  IN Eager([i \in 1..200 |->
       LET l == (i - 1) \div 8
           j == (i - 1) % 8
           x == l % 5
           y == l \div 5
           chi == Xor(LaneByte(B, x, y, j),
                      AndNot(LaneByte(B, (x + 1) % 5, y, j), LaneByte(B, (x + 2) % 5, y, j)))
       IN IF l = 0 THEN Xor(chi, RC[r][j + 1]) ELSE chi])

RECURSIVE Rounds(_, _)
Rounds(A, r) ==
  IF r > 24 THEN A
  ELSE LET A1 == Round(A, r) IN IF Len(A1) = 200 THEN Rounds(A1, r + 1) ELSE <<>>

keccakf(A) == Rounds(A, 1)

\* update + finalize of a 256-bit sponge (rate 136) on a message shorter than
\* one block: the message, the delimiter byte, zeros, 0x80 on the last byte
Sponge256(buf, delim) ==
  LET n == Len(buf)
      padded == Eager([i \in 1..200 |->
                  IF i <= n THEN buf[i]
                  ELSE IF i > 136 THEN 0
                  ELSE (IF i = n + 1 THEN delim ELSE 0) + (IF i = 136 THEN 128 ELSE 0)])
  IN SubSeq(keccakf(padded), 1, 32)

\* Sha3::v256(): the delimiter of SHA3-256 (0x06)
Sha3_v256(buf) == Sponge256(buf, 6)

\* Keccak-256, the hash of the CREATE2 scheme: the delimiter 0x01
Keccak_v256(buf) == Sponge256(buf, 1)

-----------------------------------------------------------------------------
(* create2_addr *)

create2_buf(addr, s, hash) == <<255>> \o addr \o s \o hash

create2_addr(addr, s, hash) == SubSeq(Sha3_v256(create2_buf(addr, s, hash)), 13, 32)

-----------------------------------------------------------------------------
(* compute_score *)

\* the nibble read at loop index i (0..39)
current_nibble(addr, i) ==
  IF i % 2 = 0 THEN (addr[(i \div 2) + 1] \div 16) % 16
  ELSE addr[(i \div 2) + 1] % 16

\* the locals before the loop
ScoreLocals ==
  [calculated_score |-> 0, starting_zeros |-> TRUE, starting_fours |-> TRUE,
   first_four |-> TRUE, four_counts |-> 0]

\* mutant: every zero nibble takes the leading-zero branch
LeadingZero_any(st, n) == n = 0

\* the test of the leading-zero branch
LeadingZero(st, n) == st.starting_zeros /\ n = 0

\* the points of the leading-zero branch
ZeroPoints(st) == [st EXCEPT !.calculated_score = @ + 10]

\* mutant: no early return
Disqualified_never(st, n) == FALSE

\* the early return inside the starting_fours block
Disqualified(st, n) == st.starting_fours /\ st.first_four /\ n # 4

\* mutant: no points when the run of four 4s ends on another nibble
FourRun_no_break_bonus(st, n, i) ==
  IF ~st.starting_fours THEN st
  ELSE IF n = 4
  THEN LET c == st.four_counts + 1 IN
       [st EXCEPT !.four_counts = c,
                  !.calculated_score =
                     @ + (IF c = 4 THEN 40 + (IF i = 39 THEN 20 ELSE 0) ELSE 0),
                  !.first_four = FALSE]
  ELSE [st EXCEPT !.starting_fours = FALSE, !.first_four = FALSE]

\* mutant: no points when the fourth 4 is the last nibble
FourRun_no_end_bonus(st, n, i) ==
  IF ~st.starting_fours THEN st
  ELSE IF n = 4
  THEN LET c == st.four_counts + 1 IN
       [st EXCEPT !.four_counts = c,
                  !.calculated_score = @ + (IF c = 4 THEN 40 ELSE 0),
                  !.first_four = FALSE]
  ELSE [st EXCEPT !.calculated_score = @ + (IF st.four_counts = 4 THEN 20 ELSE 0),
                  !.starting_fours = FALSE,
                  !.first_four = FALSE]

\* mutant: the 40 points again for every 4 from the fourth on
FourRun_bonus_from_four(st, n, i) ==
  IF ~st.starting_fours THEN st
  ELSE IF n = 4
  THEN LET c == st.four_counts + 1 IN
       [st EXCEPT !.four_counts = c,
                  !.calculated_score =
                     @ + (IF c >= 4 THEN 40 + (IF i = 39 THEN 20 ELSE 0) ELSE 0),
                  !.first_four = FALSE]
  ELSE [st EXCEPT !.calculated_score = @ + (IF st.four_counts = 4 THEN 20 ELSE 0),
                  !.starting_fours = FALSE,
                  !.first_four = FALSE]

\* the rest of the starting_fours block
FourRun(st, n, i) ==
  IF ~st.starting_fours THEN st
  ELSE IF n = 4
  THEN LET c == st.four_counts + 1 IN
       [st EXCEPT !.four_counts = c,
                  !.calculated_score =
                     @ + (IF c = 4 THEN 40 + (IF i = 39 THEN 20 ELSE 0) ELSE 0),
                  !.first_four = FALSE]
  ELSE [st EXCEPT !.calculated_score = @ + (IF st.four_counts = 4 THEN 20 ELSE 0),
                  !.starting_fours = FALSE,
                  !.first_four = FALSE]

\* mutant: a 4 counts only while the run of 4s is going on
EveryFour_in_run(st, n) ==
  IF n = 4 /\ st.starting_fours THEN [st EXCEPT !.calculated_score = @ + 1] ELSE st

\* mutant: a 4 adds nothing
EveryFour_none(st, n) == st

\* one point for every 4
EveryFour(st, n) ==
  IF n = 4 THEN [st EXCEPT !.calculated_score = @ + 1] ELSE st

\* mutant: the check after the loop asks for 4s in all of the last four nibbles
FinalBonus_last_four(addr) ==
  IF addr[19] = 68 /\ addr[20] = 68 THEN 20 ELSE 0

\* the check after the loop
FinalBonus(addr) ==
  IF addr[19] % 16 = 4 /\ (addr[20] \div 16) * 16 = 64 THEN 20 ELSE 0

\* the loop from index i on, and what the function returns
RECURSIVE ScoreLoop(_, _, _)
ScoreLoop(addr, i, st) ==
  IF i = 40 THEN st.calculated_score + FinalBonus(addr)
  ELSE LET n == current_nibble(addr, i) IN
       IF LeadingZero(st, n) THEN ScoreLoop(addr, i + 1, ZeroPoints(st))
       ELSE LET s1 == [st EXCEPT !.starting_zeros = FALSE] IN
            IF Disqualified(s1, n) THEN 0
            ELSE ScoreLoop(addr, i + 1, EveryFour(FourRun(s1, n, i), n))

compute_score(addr) == ScoreLoop(addr, 0, ScoreLocals)

\* the loop from index i on, one record per completed iteration: the points
\* added by the leading-zero branch, by the starting_fours block and by the
\* check of line 82, and calculated_score at the end of the iteration; the
\* sequence stops where the function returns early
RECURSIVE ScoreTrace(_, _, _)
ScoreTrace(addr, i, st) ==
  IF i = 40 THEN <<>>
  ELSE LET n == current_nibble(addr, i) IN
       IF LeadingZero(st, n)
       THEN LET s1 == ZeroPoints(st) IN
            <<[zero |-> s1.calculated_score - st.calculated_score,
               run |-> 0, four |-> 0, total |-> s1.calculated_score]>>
            \o ScoreTrace(addr, i + 1, s1)
       ELSE LET s1 == [st EXCEPT !.starting_zeros = FALSE] IN
            IF Disqualified(s1, n) THEN <<>>
            ELSE LET s2 == FourRun(s1, n, i)
                     s3 == EveryFour(s2, n)
                 IN <<[zero |-> 0,
                       run |-> s2.calculated_score - s1.calculated_score,
                       four |-> s3.calculated_score - s2.calculated_score,
                       total |-> s3.calculated_score]>>
                    \o ScoreTrace(addr, i + 1, s3)

-----------------------------------------------------------------------------
(* main: the constants *)

DEPLOYER_ADDRESS_HEX ==
  <<"4", "8", "E", "5", "1", "6", "B", "3", "4", "A", "1", "2", "7", "4", "f", "4",
    "9", "4", "5", "7", "b", "9", "C", "6", "1", "8", "2", "0", "9", "7", "7", "9",
    "6", "D", "0", "4", "9", "8", "C", "b">>

INITCODE_HASH_HEX ==
  <<"9", "4", "d", "1", "1", "4", "2", "9", "6", "a", "5", "a", "f", "8", "5", "c",
    "1", "f", "d", "2", "d", "c", "0", "3", "9", "c", "d", "a", "a", "3", "2", "f",
    "1", "e", "d", "4", "b", "0", "f", "e", "0", "8", "6", "8", "f", "0", "2", "d",
    "8", "8", "8", "b", "f", "c", "9", "1", "f", "e", "b", "6", "4", "5", "d", "9">>

SUBMITTER_ADDRESS_HEX ==
  <<"b", "4", "6", "B", "3", "7", "0", "a", "1", "A", "1", "6", "B", "9", "5", "9",
    "b", "F", "F", "7", "d", "4", "7", "0", "1", "0", "E", "2", "5", "6", "C", "5",
    "0", "D", "b", "8", "3", "3", "0", "F">>

deployer == HexDecode(DEPLOYER_ADDRESS_HEX)
code_hash == HexDecode(INITCODE_HASH_HEX)
submitter == HexDecode(SUBMITTER_ADDRESS_HEX)

-----------------------------------------------------------------------------
(* main: the worker closure *)

Threads == 0..(num_threads - 1)

\* u64::to_be_bytes, the n low-order bytes, most significant first
RECURSIVE BeBytes(_, _)
BeBytes(x, n) == IF n = 0 THEN <<>> ELSE Append(BeBytes(x \div 256, n - 1), x % 256)

\* mutant: the 8 bytes least significant first
to_le_bytes(x) == [k \in 1..8 |-> BeBytes(x, 8)[9 - k]]

to_be_bytes(x) == BeBytes(x, 8)

\* the three copy_from_slice calls into the zeroed salt
MakeSalt(sub, pep, counter) == sub \o pep \o to_be_bytes(counter)

\* create2_addr(&deployer, &salt, &code_hash) for every pepper and counter of the
\* model, computed once: derived[k][c + 1] for Peppers[k] and counter c
derived ==
  Eager([k \in 1..Len(Peppers) |->
    Eager([c \in 1..(MaxThreads * (MaxIter + 1)) |->
      create2_addr(deployer, MakeSalt(submitter, Peppers[k], c - 1), code_hash)])])

\* compute_score(&address) of each of these addresses, computed once
derived_score ==
  Eager([k \in 1..Len(Peppers) |->
    Eager([c \in 1..(MaxThreads * (MaxIter + 1)) |-> compute_score(derived[k][c])])])

PepperIndex(pep) == CHOOSE k \in 1..Len(Peppers) : Peppers[k] = pep

\* the address a thread derives from its salt
DeriveAddress(pep, counter) == derived[PepperIndex(pep)][counter + 1]

\* mutant: the address and the salt in each other's place
NewBestLine_args_swapped(best, s) == <<HexEncode(s), best[2], HexEncode(best[1])>>

\* the text after "New best address: ": the address, the score, the salt
NewBestLine(best, s) == <<HexEncode(best[1]), best[2], HexEncode(s)>>

\* mutant: the stored score starts above 0
InitialBest_scored == <<deployer, 1>>

\* Mutex::new((deployer, 0))
InitialBest == <<deployer, 0>>

Init ==
  /\ num_threads \in 1..MaxThreads
  /\ handles = <<>>
  /\ best_address = InitialBest
  /\ locked_by = {}
  /\ pc = [w \in Threads |-> "unspawned"]
  /\ rand = [w \in Threads |-> 0]
  /\ pepper = [w \in Threads |-> Zeros(4)]
  /\ salt = [w \in Threads |-> Zeros(32)]
  /\ address = [w \in Threads |-> Zeros(20)]
  /\ score = [w \in Threads |-> 0]
  /\ stdout = <<>>
  /\ counters = [w \in Threads |-> <<>>]
  /\ attempts = <<>>
  /\ replacements = <<>>
  /\ t_pc = "idle"
  /\ t_address = Zeros(20)
  /\ t_score = 0
  /\ t_trace = <<>>
  /\ poisoned = FALSE
  /\ main_pc = "spawn"
  /\ join_i = 0

\* std::thread::spawn for the next index of 0..num_threads
Spawn ==
  /\ main_pc = "spawn"
  /\ Len(handles) < num_threads
  /\ LET i == Len(handles) IN
       /\ pc[i] = "unspawned"
       /\ pc' = [pc EXCEPT ![i] = "start"]
       /\ handles' = Append(handles, i)
       /\ main_pc' = IF i + 1 = num_threads THEN "join" ELSE "spawn"
  /\ UNCHANGED <<num_threads, best_address, locked_by, rand, pepper, salt, address,
                 score, stdout, attempts, replacements>>
  /\ UNCHANGED <<counters, harnessVars, poisoned, join_i>>

\* the closure before its loop: rand = i, pepper filled by thread_rng()
Start(w) ==
  /\ pc[w] = "start"
  /\ rand' = [rand EXCEPT ![w] = w]
  /\ \E k \in 1..Len(Peppers) : pepper' = [pepper EXCEPT ![w] = Peppers[k]]
  /\ pc' = [pc EXCEPT ![w] = "loop"]
  /\ UNCHANGED <<num_threads, handles, best_address, locked_by, salt, address,
                 score, stdout, attempts, replacements>>
  /\ UNCHANGED <<counters, harnessVars, failVars>>

\* whether thread w is still followed: it has run fewer than MaxIter
\* iterations, or the mutex is poisoned and its next lock() is its last
Followed(w) == (rand[w] - w) \div num_threads < MaxIter \/ poisoned

\* the loop body up to the lock: salt, address, score
Derive(w) ==
  /\ pc[w] = "loop"
  /\ Followed(w)
  /\ LET s == MakeSalt(submitter, pepper[w], rand[w])
         a == DeriveAddress(pepper[w], rand[w])
     IN /\ salt' = [salt EXCEPT ![w] = s]
        /\ address' = [address EXCEPT ![w] = a]
        /\ score' = [score EXCEPT ![w] = compute_score(a)]
  /\ counters' = [counters EXCEPT ![w] = Append(@, rand[w])]
  /\ pc' = [pc EXCEPT ![w] = "lock"]
  /\ UNCHANGED <<num_threads, handles, best_address, locked_by, rand, pepper,
                 stdout, attempts, replacements>>
  /\ UNCHANGED <<harnessVars, failVars>>

\* mutant: a lock that excludes nobody
LockFree_unchecked == TRUE

\* whether best_address.lock() can return now
LockFree == locked_by = {}

\* best_address.lock().unwrap()
Lock(w) ==
  /\ pc[w] = "lock"
  /\ LockFree
  /\ ~poisoned
  /\ locked_by' = locked_by \cup {w}
  /\ pc' = [pc EXCEPT ![w] = "compare"]
  /\ UNCHANGED <<num_threads, handles, best_address, rand, pepper, salt, address,
                 score, stdout, attempts, replacements>>
  /\ UNCHANGED <<counters, harnessVars, failVars>>

\* mutant: an equal score replaces too
Better_or_equal(new_score, stored_score) == new_score >= stored_score

\* the condition of the if
Better(new_score, stored_score) == new_score > stored_score

\* if score > best.1
Compare(w) ==
  /\ pc[w] = "compare"
  /\ pc' = [pc EXCEPT ![w] =
              IF Better(score[w], best_address[2]) THEN "replace" ELSE "advance"]
  /\ attempts' = Append(attempts, <<address[w], score[w], salt[w]>>)
  /\ UNCHANGED <<num_threads, handles, best_address, locked_by, rand, pepper, salt,
                 address, score, stdout, replacements>>
  /\ UNCHANGED <<counters, harnessVars, failVars>>

\* mutant: the score is replaced, the address is not
NewBest_score_only(a, sc) == <<deployer, sc>>

\* the tuple assigned to *best
NewBest(a, sc) == <<a, sc>>

\* *best = (address, score)
Replace(w) ==
  /\ pc[w] = "replace"
  /\ best_address' = NewBest(address[w], score[w])
  /\ replacements' = Append(replacements, <<address[w], score[w], salt[w]>>)
  /\ pc' = [pc EXCEPT ![w] = "print"]
  /\ UNCHANGED <<num_threads, handles, locked_by, rand, pepper, salt, address,
                 score, stdout, attempts>>
  /\ UNCHANGED <<counters, harnessVars, failVars>>

\* println!("New best address: ...", hex::encode(best.0), best.1, hex::encode(salt))
PrintNewBest(w) ==
  /\ pc[w] = "print"
  /\ stdout' = Append(stdout, NewBestLine(best_address, salt[w]))
  /\ pc' = [pc EXCEPT ![w] = "advance"]
  /\ UNCHANGED <<num_threads, handles, best_address, locked_by, rand, pepper, salt,
                 address, score, attempts, replacements>>
  /\ UNCHANGED <<counters, harnessVars, failVars>>

\* mutant: the counter advances by one
Stride_one(n) == 1

\* the stride added to rand: num_threads as u64
Stride(n) == n

\* mutant: the MutexGuard is dropped before the counter advances
Advance_unlocked(w) ==
  /\ pc[w] = "advance"
  /\ rand' = [rand EXCEPT ![w] = @ + Stride(num_threads)]
  /\ locked_by' = locked_by \ {w}
  /\ pc' = [pc EXCEPT ![w] = "unlock"]
  /\ UNCHANGED <<num_threads, handles, best_address, pepper, salt,
                 address, score, stdout, attempts, replacements>>
  /\ UNCHANGED <<counters, harnessVars, failVars>>

\* rand += num_threads as u64
Advance(w) ==
  /\ pc[w] = "advance"
  /\ rand' = [rand EXCEPT ![w] = @ + Stride(num_threads)]
  /\ pc' = [pc EXCEPT ![w] = "unlock"]
  /\ UNCHANGED <<num_threads, handles, best_address, locked_by, pepper, salt,
                 address, score, stdout, attempts, replacements>>
  /\ UNCHANGED <<counters, harnessVars, failVars>>

\* the end of the loop body: the MutexGuard best is dropped
Unlock(w) ==
  /\ pc[w] = "unlock"
  /\ locked_by' = locked_by \ {w}
  /\ pc' = [pc EXCEPT ![w] = "loop"]
  /\ UNCHANGED <<num_threads, handles, best_address, rand, pepper, salt, address,
                 score, stdout, attempts, replacements>>
  /\ UNCHANGED <<counters, harnessVars, failVars>>

Next ==
  \/ Spawn
  \/ \E w \in Threads : Start(w)
  \/ \E w \in Threads : Derive(w)
  \/ \E w \in Threads : Lock(w)
  \/ \E w \in Threads : Compare(w)
  \/ \E w \in Threads : Replace(w)
  \/ \E w \in Threads : PrintNewBest(w)
  \/ \E w \in Threads : Advance(w)
  \/ \E w \in Threads : Unlock(w)

Spec == Init /\ [][Next]_vars

-----------------------------------------------------------------------------
(* main with a failing thread: println! panics when the write to stdout fails,
   lock().unwrap() panics on a poisoned mutex, join().unwrap() panics in main
   when the joined thread panicked, and the process ends with main. *)

\* whether the process is still there: main has neither panicked nor returned
Running == main_pc \in {"spawn", "join"}

\* println! panics: the thread unwinds, the MutexGuard is dropped while
\* panicking, which poisons the mutex and releases it
PrintFails(w) ==
  /\ pc[w] = "print"
  /\ poisoned' = TRUE
  /\ locked_by' = locked_by \ {w}
  /\ pc' = [pc EXCEPT ![w] = "panicked"]
  /\ UNCHANGED <<num_threads, handles, best_address, rand, pepper, salt, address,
                 score, stdout, attempts, replacements>>
  /\ UNCHANGED <<counters, harnessVars, main_pc, join_i>>

\* mutant: the poison is ignored and the guard is used
LockPoisoned_recovers(w) ==
  /\ pc[w] = "lock"
  /\ LockFree
  /\ poisoned
  /\ locked_by' = locked_by \cup {w}
  /\ pc' = [pc EXCEPT ![w] = "compare"]
  /\ UNCHANGED <<num_threads, handles, best_address, rand, pepper, salt,
                 address, score, stdout, attempts, replacements>>
  /\ UNCHANGED <<counters, harnessVars, failVars>>

\* best_address.lock() returns Err(PoisonError) and unwrap() panics; the guard
\* inside the error is dropped, so the mutex is free again
LockPoisoned(w) ==
  /\ pc[w] = "lock"
  /\ LockFree
  /\ poisoned
  /\ pc' = [pc EXCEPT ![w] = "panicked"]
  /\ UNCHANGED <<num_threads, handles, best_address, locked_by, rand, pepper, salt,
                 address, score, stdout, attempts, replacements>>
  /\ UNCHANGED <<counters, harnessVars, failVars>>

\* mutant: join() returns without waiting for the thread
Finished_always(h) == TRUE

\* whether handle.join() can return now: the thread has ended
Finished(h) == pc[h] = "panicked"

\* handle.join().unwrap() for the next handle: Err when the thread panicked,
\* and unwrap() then panics in main
Join ==
  /\ main_pc = "join"
  /\ join_i < Len(handles)
  /\ LET h == handles[join_i + 1] IN
       /\ Finished(h)
       /\ IF pc[h] = "panicked"
          THEN main_pc' = "panicked" /\ join_i' = join_i
          ELSE /\ join_i' = join_i + 1
               /\ main_pc' = IF join_i + 1 = Len(handles) THEN "returned" ELSE "join"
  /\ UNCHANGED <<num_threads, handles, best_address, locked_by, pc, rand, pepper,
                 salt, address, score, stdout, attempts, replacements>>
  /\ UNCHANGED <<counters, harnessVars, poisoned>>

\* the step of Derive(w) with the score left open: it is enabled exactly when
\* Derive(w) is, and the steps of NextFail that satisfy it are those of
\* Derive(w); the fairness condition uses it so that whether the step is
\* enabled is decided without scoring the address
DeriveStep(w) ==
  /\ pc[w] = "loop"
  /\ Followed(w)
  /\ salt' = [salt EXCEPT ![w] = MakeSalt(submitter, pepper[w], rand[w])]
  /\ address' = [address EXCEPT ![w] = DeriveAddress(pepper[w], rand[w])]
  /\ \E sc \in 0..444 : score' = [score EXCEPT ![w] = sc]
  /\ counters' = [counters EXCEPT ![w] = Append(@, rand[w])]
  /\ pc' = [pc EXCEPT ![w] = "lock"]
  /\ UNCHANGED <<num_threads, handles, best_address, locked_by, rand, pepper,
                 stdout, attempts, replacements>>
  /\ UNCHANGED <<harnessVars, failVars>>

\* the steps of thread w that do not fail
WorkerStep(w) ==
  /\ w \in Threads
  /\ Running
  /\ \/ Start(w) \/ DeriveStep(w) \/ Lock(w) \/ LockPoisoned(w) \/ Compare(w)
     \/ Replace(w) \/ PrintNewBest(w) \/ Advance(w) \/ Unlock(w)

NextFail ==
  \/ Running /\ Spawn
  \/ \E w \in Threads : Running /\ Start(w)
  \/ \E w \in Threads : Running /\ Derive(w)
  \/ \E w \in Threads : Running /\ Lock(w)
  \/ \E w \in Threads : Running /\ Compare(w)
  \/ \E w \in Threads : Running /\ Replace(w)
  \/ \E w \in Threads : Running /\ PrintNewBest(w)
  \/ \E w \in Threads : Running /\ Advance(w)
  \/ \E w \in Threads : Running /\ Unlock(w)
  \/ \E w \in Threads : Running /\ PrintFails(w)
  \/ \E w \in Threads : Running /\ LockPoisoned(w)
  \/ Join

\* a step of main or of a thread that is not a failure
Progress ==
  \/ Running /\ Spawn
  \/ Join
  \/ \E w \in Threads : WorkerStep(w)

\* the process does not stand still while main or a thread can take a step;
\* a failure is never owed
Fairness == WF_vars(Progress)

SpecFail == Init /\ [][NextFail]_vars /\ Fairness

-----------------------------------------------------------------------------
(* compute_score on its own: a family of addresses, each scored once. *)

\* the nibbles placed after the run of 4s, and in the last four positions
MidNibbles == {0, 4, 7}
TailNibbles == {0, 4}

\* the address of z zero nibbles, r 4-nibbles, the nibbles mid, zeros up to
\* nibble 35, and the nibbles tail in positions 36..39
BuildAddress(z, r, mid, tail) ==
  LET nib(i) == IF i >= 36 THEN tail[i - 35]
                ELSE IF i < z THEN 0
                ELSE IF i < z + r THEN 4
                ELSE IF i < z + r + Len(mid) THEN mid[i - z - r + 1]
                ELSE 0
  IN Eager([k \in 1..20 |-> 16 * nib(2 * k - 2) + nib(2 * k - 1)])

TestAddresses ==
  { BuildAddress(z, r, mid, tail) :
      z \in 0..40, r \in 0..MaxRun,
      mid \in [1..MidLen -> MidNibbles], tail \in [1..4 -> TailNibbles] }

InitScore ==
  /\ num_threads = 1
  /\ handles = <<>>
  /\ best_address = InitialBest
  /\ locked_by = {}
  /\ pc = [w \in Threads |-> "unspawned"]
  /\ rand = [w \in Threads |-> 0]
  /\ pepper = [w \in Threads |-> Zeros(4)]
  /\ salt = [w \in Threads |-> Zeros(32)]
  /\ address = [w \in Threads |-> Zeros(20)]
  /\ score = [w \in Threads |-> 0]
  /\ stdout = <<>>
  /\ counters = [w \in Threads |-> <<>>]
  /\ attempts = <<>>
  /\ replacements = <<>>
  /\ t_pc = "input"
  /\ t_address \in TestAddresses
  /\ t_score = 0
  /\ t_trace = <<>>
  /\ poisoned = FALSE
  /\ main_pc = "spawn"
  /\ join_i = 0

\* let score = compute_score(&address)
Score ==
  /\ t_pc = "input"
  /\ t_score' = compute_score(t_address)
  /\ t_trace' = ScoreTrace(t_address, 0, ScoreLocals)
  /\ t_pc' = "scored"
  /\ UNCHANGED <<t_address, threadVars>>

NextScore == Score

SpecScore == InitScore /\ [][NextScore]_vars

-----------------------------------------------------------------------------
(* Properties of compute_score. *)

\* nibble i (0..39) of an address, most significant first
NibbleAt(a, i) == (a[(i \div 2) + 1] \div (IF i % 2 = 0 THEN 16 ELSE 1)) % 16

AllZero(a) == \A i \in 0..39 : NibbleAt(a, i) = 0

\* the number of nibbles equal to v from nibble i on, up to the first other one
RECURSIVE RunFrom(_, _, _)
RunFrom(a, i, v) ==
  IF i >= 40 \/ NibbleAt(a, i) # v THEN 0 ELSE 1 + RunFrom(a, i + 1, v)

\* the number of zero nibbles before the first non-zero nibble (40 if all zero)
LeadingZeroCount(a) == RunFrom(a, 0, 0)

\* the first non-zero nibble of an address that has one
FirstNonZero(a) == NibbleAt(a, LeadingZeroCount(a))

\* the length of the run of 4-nibbles that starts at the first non-zero nibble
InitialRun(a) == RunFrom(a, LeadingZeroCount(a), 4)

\* what the rules about 4-nibbles give an address whose first non-zero nibble is 4
FourRulePoints(a) ==
  (IF InitialRun(a) >= 4 THEN 40 ELSE 0)
  + (IF InitialRun(a) = 4 THEN 20 ELSE 0)
  + Cardinality({i \in 0..39 : NibbleAt(a, i) = 4})
  + (IF NibbleAt(a, 37) = 4 /\ NibbleAt(a, 38) = 4 THEN 20 ELSE 0)

\* 0x0044440000000000000000000000000000000000
C4_Address == <<0, 68, 68>> \o Zeros(17)

\* C4 as stated: compute_score of 0x0044440000000000000000000000000000000000
\* is 86.
C4_ScoreIs86 == (t_pc = "scored" /\ t_address = C4_Address) => t_score = 86

\* C4, amended: compute_score of 0x0044440000000000000000000000000000000000
\* is 84 (20 for the two leading zeros, 40 for the run of four 4s, 4 for the
\* four 4s, 20 for the run ending on a non-4 nibble).
C4_ScoreIs84 == (t_pc = "scored" /\ t_address = C4_Address) => t_score = 84

C4_Witness == t_pc = "scored" /\ t_address = C4_Address

\* C5: an address that has a non-zero nibble and whose first non-zero nibble
\* is not 4 scores exactly 0, whatever the leading zeros before it and the
\* nibbles after it.
C5_DisqualifiedScoresZero ==
  (t_pc = "scored" /\ ~AllZero(t_address) /\ FirstNonZero(t_address) # 4)
    => t_score = 0

\* a disqualified address with leading zeros before the offending nibble and
\* 4s in nibbles 37 and 38
C5_Witness ==
  /\ t_pc = "scored"
  /\ LeadingZeroCount(t_address) \in 2..30
  /\ FirstNonZero(t_address) = 7
  /\ NibbleAt(t_address, 37) = 4 /\ NibbleAt(t_address, 38) = 4
  /\ t_score = 0

\* C6: the leading-zero rule gives exactly 10 points per zero nibble of the
\* maximal run of zeros at the start and nothing for a later zero nibble: the
\* all-zero address scores 400, and an address whose first non-zero nibble is
\* 4 scores 10 per leading zero plus what the rules about 4s give.
C6_LeadingZeros ==
  t_pc = "scored" =>
    /\ AllZero(t_address) => t_score = 400
    /\ (~AllZero(t_address) /\ FirstNonZero(t_address) = 4) =>
          t_score = 10 * LeadingZeroCount(t_address) + FourRulePoints(t_address)

\* a scored address with leading zeros, a first non-zero nibble 4 and zero
\* nibbles after it
C6_Witness ==
  /\ t_pc = "scored"
  /\ LeadingZeroCount(t_address) \in 2..30
  /\ FirstNonZero(t_address) = 4
  /\ \E i \in 0..39 : i > LeadingZeroCount(t_address) /\ NibbleAt(t_address, i) = 0
  /\ t_score = 10 * LeadingZeroCount(t_address) + FourRulePoints(t_address)

\* the points of the check of nibbles 37 and 38
FinalPairPoints(a) ==
  IF NibbleAt(a, 37) = 4 /\ NibbleAt(a, 38) = 4 THEN 20 ELSE 0

\* the number of 4-nibbles of an address
CountFours(a) == Cardinality({i \in 0..39 : NibbleAt(a, i) = 4})

Qualified(a) == ~AllZero(a) /\ FirstNonZero(a) = 4

\* C12: for an address whose first non-zero nibble is 4 and whose initial run
\* of 4s has length r, the 40 points are added exactly once when r >= 4 (at the
\* fourth 4) and never otherwise; the 20 points of the run are added exactly
\* once when r = 4 (at the nibble that breaks the run, or at nibble 39 when the
\* fourth 4 is the last nibble) and never otherwise, so not for r >= 5 and not
\* for a later run of 4s.
C12_RunBonuses ==
  (t_pc = "scored" /\ Qualified(t_address)) =>
    LET tr == t_trace
        z == LeadingZeroCount(t_address)
        r == InitialRun(t_address)
        forty == {k \in 1..Len(tr) : tr[k].run \in {40, 60}}
        twenty == {k \in 1..Len(tr) : tr[k].run \in {20, 60}}
    IN /\ Len(tr) = 40
       /\ \A k \in 1..40 : tr[k].run \in {0, 20, 40, 60}
       /\ forty = (IF r >= 4 THEN {z + 4} ELSE {})
       /\ twenty = (IF r = 4 THEN {IF z = 36 THEN 40 ELSE z + 5} ELSE {})
       /\ t_score = 10 * z + CountFours(t_address) + FinalPairPoints(t_address)
                    + (IF r >= 4 THEN 40 ELSE 0) + (IF r = 4 THEN 20 ELSE 0)

\* the run of four 4s that ends with the address: both bonuses at nibble 39
C12_Witness ==
  /\ t_pc = "scored"
  /\ LeadingZeroCount(t_address) = 36
  /\ InitialRun(t_address) = 4
  /\ t_trace[40].run = 60

\* C13: in an address that is not disqualified every 4-nibble from the first
\* non-zero nibble on adds exactly 1, inside the initial run and after it; a
\* nibble that is not 4 adds nothing there, apart from the 20 points of the run
\* it may end.
C13_OnePerFour ==
  (t_pc = "scored" /\ Qualified(t_address)) =>
    LET tr == t_trace
        z == LeadingZeroCount(t_address)
        r == InitialRun(t_address)
    IN /\ Len(tr) = 40
       /\ \A k \in 1..40 :
            LET n == NibbleAt(t_address, k - 1)
                before == IF k = 1 THEN 0 ELSE tr[k - 1].total
            IN /\ tr[k].four = (IF k > z /\ n = 4 THEN 1 ELSE 0)
               /\ tr[k].total = before + tr[k].zero + tr[k].run + tr[k].four
               /\ (k > z /\ n # 4) =>
                    tr[k].total - before = (IF r = 4 /\ k = z + 5 THEN 20 ELSE 0)
       /\ tr[40].total - 10 * z - (IF r >= 4 THEN 40 ELSE 0) - (IF r = 4 THEN 20 ELSE 0)
            = CountFours(t_address)

\* 4-nibbles after the initial run was broken, all counted
C13_Witness ==
  /\ t_pc = "scored"
  /\ Qualified(t_address)
  /\ CountFours(t_address) >= InitialRun(t_address) + 3
  /\ \E k \in 1..40 : /\ k > LeadingZeroCount(t_address) + InitialRun(t_address) + 1
                      /\ k <= 36
                      /\ t_trace[k].four = 1

C18_ZeroIffDisqualified ==
  t_pc = "scored" =>
    /\ (t_score = 0) <=> (~AllZero(t_address) /\ FirstNonZero(t_address) # 4)
    /\ (AllZero(t_address) \/ FirstNonZero(t_address) = 4) => t_score >= 1

\* an address that is not disqualified and scores as little as 1
C18_Witness ==
  /\ t_pc = "scored"
  /\ Qualified(t_address)
  /\ LeadingZeroCount(t_address) = 0
  /\ CountFours(t_address) = 1
  /\ t_score = 1

\* 0x0000000000000000000000000000000000004444
C20_Address == Zeros(18) \o <<68, 68>>

\* C20: compute_score is at most 444, it is 444 only for 36 zero nibbles
\* followed by four 4s, and calculated_score is at most 444 (far below 2^32)
\* after every iteration of the loop.
C20_AtMost444 ==
  t_pc = "scored" =>
    /\ t_score <= 444
    /\ (t_score = 444) <=> (t_address = C20_Address)
    /\ LET tr == t_trace IN
         \A k \in 1..Len(tr) : tr[k].total >= 0 /\ tr[k].total <= 444

C20_Witness == t_pc = "scored" /\ t_address = C20_Address /\ t_score = 444

-----------------------------------------------------------------------------
(* Properties of the shared best_address. *)

\* the largest element of a non-empty set of numbers
MaxOf(S) == CHOOSE m \in S : \A x \in S : x <= m

\* the maximum of 0 and the scores of the attempts performed so far
MaxAttemptScore == MaxOf({0} \cup {attempts[k][2] : k \in 1..Len(attempts)})

\* the index of the earliest attempt with score m, when there is one
EarliestWith(m) ==
  CHOOSE k \in 1..Len(attempts) :
    attempts[k][2] = m /\ \A j \in 1..(k - 1) : attempts[j][2] # m

\* C1 as stated: whenever no thread is inside the locked section, the stored
\* score is the maximum of 0 and the scores of all attempts so far, and the
\* stored address is the address of the earliest attempt that reached that
\* maximum.
C1_EarliestMaxStored ==
  (locked_by = {} /\ attempts # <<>>) =>
    /\ best_address[2] = MaxAttemptScore
    /\ best_address[1] = attempts[EarliestWith(MaxAttemptScore)][1]

\* C1, amended: whenever no thread is inside the locked section, the stored
\* score is the maximum of 0 and the scores of all attempts so far; when that
\* maximum is above 0 the stored address is the address of the earliest
\* attempt that reached it (an equal-scoring later attempt never replaces
\* it), and when it is 0 the stored address is still the deployer's.
C1_EarliestPositiveMaxStored ==
  locked_by = {} =>
    /\ best_address[2] = MaxAttemptScore
    /\ MaxAttemptScore > 0 =>
         best_address[1] = attempts[EarliestWith(MaxAttemptScore)][1]
    /\ MaxAttemptScore = 0 => best_address[1] = deployer

\* two attempts with different addresses tie at the maximum, and the earlier
\* one is stored
C1_Witness ==
  /\ locked_by = {}
  /\ MaxAttemptScore > 0
  /\ \E j, k \in 1..Len(attempts) :
       /\ j < k
       /\ attempts[j][2] = MaxAttemptScore /\ attempts[k][2] = MaxAttemptScore
       /\ attempts[j][1] # attempts[k][1]
       /\ best_address[1] = attempts[j][1]
       /\ \A i \in 1..(j - 1) : attempts[i][2] < MaxAttemptScore

\* C2: at most one thread at a time is between acquiring and releasing the
\* lock; a thread about to replace the stored value holds a score above the
\* stored one, so no step lowers the stored score.
C2_AtomicUpdate ==
  [][/\ Cardinality(locked_by') <= 1
     /\ \A w \in Threads : pc'[w] = "replace" => score'[w] > best_address'[2]
     /\ best_address'[2] >= best_address[2]]_vars

\* a thread has compared a lower score against a higher one that another
\* thread installed, while a third party waits for the lock
C2_Witness ==
  \E w, v \in Threads :
    /\ w # v
    /\ locked_by = {w} /\ pc[w] = "advance"
    /\ score[w] > 0 /\ score[w] < best_address[2]
    /\ replacements # <<>>
    /\ \E i \in 1..Len(counters[v]) :
         replacements[Len(replacements)][3] =
           MakeSalt(submitter, pepper[v], counters[v][i])
    /\ pc[v] = "lock"

\* C3: no counter is used by two different threads, and no thread uses the
\* same counter twice.
C3_CountersDistinct ==
  \A w, v \in Threads :
    \A i \in 1..Len(counters[w]), j \in 1..Len(counters[v]) :
      (w # v \/ i # j) => counters[w][i] # counters[v][j]

\* two threads have each built MaxIter salts
C3_Witness ==
  /\ num_threads >= 2
  /\ \A w \in Threads : Len(counters[w]) = MaxIter /\ MaxIter >= 2

\* the positions of the closure at which address[w] holds a derived address
Derived(w) == pc[w] \in {"lock", "compare", "replace", "print", "advance", "unlock"}

\* C7: the address a thread derives is bytes 12..32 of the Keccak-256 digest
\* of 0xFF, the deployer, the salt and the code hash (the CREATE2 address).
C7_Keccak256Address ==
  \A w \in Threads :
    Derived(w) =>
      address[w] = SubSeq(Keccak_v256(create2_buf(deployer, salt[w], code_hash)), 13, 32)

\* entry k of a sequence of <<address, score, salt>> beats 0 and every entry
\* before it
IsRecord(seq, k) == seq[k][2] > 0 /\ \A j \in 1..(k - 1) : seq[j][2] < seq[k][2]

\* the entries of seq, from index k on, that are records
RECURSIVE RecordsFrom(_, _)
RecordsFrom(seq, k) ==
  IF k > Len(seq) THEN <<>>
  ELSE (IF IsRecord(seq, k) THEN <<seq[k]>> ELSE <<>>) \o RecordsFrom(seq, k + 1)

\* every followed thread has been spawned and has run its MaxIter iterations
Done ==
  /\ Len(handles) = num_threads
  /\ \A w \in Threads : pc[w] = "loop" /\ ~Followed(w)

\* the attempts of the run in which thread 0 runs all its iterations, then
\* thread 1, and so on, with the peppers of this run
RefAttempts ==
  Eager([i \in 1..(num_threads * MaxIter) |->
    LET w == (i - 1) \div MaxIter
        c == w + ((i - 1) % MaxIter) * num_threads
        a == DeriveAddress(pepper[w], c)
    IN <<a, compute_score(a), MakeSalt(submitter, pepper[w], c)>>])

\* C8 as stated: for a fixed thread count, fixed peppers and a bounded number
\* of iterations, every run makes the same sequence of replacements: the one
\* of the run in which the threads run one after the other.
C8_SameUpdates == Done => replacements = RecordsFrom(RefAttempts, 1)

\* C8, amended: the sequence of replacements is the sequence of records of
\* the attempts in the order the lock was acquired, so two runs that acquire
\* it in the same order make the same replacements; with one thread every
\* run makes the same sequence, and with several threads every run ends with
\* the same stored score.
C8_UpdatesFollowLockOrder ==
  /\ (\A w \in Threads : pc[w] # "replace") =>
        replacements = RecordsFrom(attempts, 1)
  /\ Done =>
        LET ref == RefAttempts IN
        /\ num_threads = 1 => replacements = RecordsFrom(ref, 1)
        /\ best_address[2] = MaxOf({0} \cup {ref[i][2] : i \in 1..Len(ref)})

\* a finished run of two threads whose replacements differ from those of the
\* run in which the threads run one after the other
C8_Witness ==
  /\ Done
  /\ num_threads >= 2
  /\ Len(replacements) >= 2
  /\ replacements # RecordsFrom(RefAttempts, 1)

\* what holds of the lines printed in every state
C9_Lines ==
  LET printing == {w \in Threads : pc[w] = "print"} IN
  /\ printing \subseteq locked_by
  /\ Len(stdout) = Len(replacements) - Cardinality(printing)
  /\ \A k \in 1..Len(stdout) : stdout[k][2] = replacements[k][2]
  /\ \A k \in 1..(Len(stdout) - 1) : stdout[k][2] < stdout[k + 1][2]
  /\ (printing = {} /\ stdout # <<>>) => stdout[Len(stdout)][2] = best_address[2]

\* what holds of a step that changes stdout
C9_Emit ==
  stdout' # stdout =>
    \E w \in Threads :
      LET line == stdout'[Len(stdout')]
          last == replacements[Len(stdout')]
      IN /\ pc[w] = "print" /\ w \in locked_by /\ w \in locked_by'
         /\ stdout' = Append(stdout, line)
         /\ last = <<address[w], score[w], salt[w]>>
         /\ best_address' = <<address[w], score[w]>>
         /\ HexDecode(line[1]) = address[w]
         /\ line[2] = score[w]
         /\ HexDecode(line[3]) = salt[w]
         /\ \E i \in 1..Len(Peppers), c \in 0..(MaxThreads * MaxIter - 1) :
              /\ salt[w] = MakeSalt(submitter, Peppers[i], c)
              /\ address[w] = derived[i][c + 1]

\* C9: the lines printed are the replacements made, one line each and in the
\* same order; a line is printed by a thread that holds the lock before and
\* after printing, and carries the address and the score just stored and the
\* salt that address was derived from; the scores printed are strictly
\* increasing.
C9_Notifications == []C9_Lines /\ [][C9_Emit]_vars

\* two lines have been printed, a later attempt did not replace the stored
\* value, and nothing is being printed
C9_Witness ==
  /\ Len(stdout) = 2
  /\ Len(attempts) >= 3
  /\ attempts[Len(attempts)][2] < best_address[2]
  /\ \A w \in Threads : pc[w] \notin {"replace", "print"}

\* the index of the first attempt with a score above 0, when there is one
FirstPositive == CHOOSE k \in 1..Len(attempts) :
                   attempts[k][2] > 0 /\ \A j \in 1..(k - 1) : attempts[j][2] = 0

\* C10: best_address is (deployer, 0) until an attempt scores above 0; the
\* first such attempt is the first replacement; a thread with score 0 never
\* reaches the replacement.
C10_FirstPositiveRecorded ==
  /\ (\A k \in 1..Len(attempts) : attempts[k][2] = 0) => best_address = <<deployer, 0>>
  /\ \A w \in Threads : pc[w] \in {"replace", "print"} => score[w] > 0
  /\ ((\E k \in 1..Len(attempts) : attempts[k][2] > 0)
        /\ ~(replacements = <<>> /\ \E w \in Threads : pc[w] = "replace"))
       => /\ replacements # <<>>
          /\ replacements[1] = attempts[FirstPositive]

\* the first attempt scored 0 and left (deployer, 0); a later one scored above
\* 0 and was recorded; an attempt with score 0 followed it
C10_Witness ==
  /\ Len(attempts) >= 3
  /\ attempts[1][2] = 0
  /\ attempts[Len(attempts)][2] = 0
  /\ Len(replacements) >= 1
  /\ best_address[2] > 0
  /\ locked_by = {}

-----------------------------------------------------------------------------
(* Properties of the salt, of the lock and of the end of the process. *)

\* the positions of a thread between its derivation and the end of the
\* iteration, and those where it holds the MutexGuard
AfterDerive == {"lock", "compare", "replace", "print", "advance", "unlock"}
UnderLock == {"compare", "replace", "print", "advance", "unlock"}

\* the last counter thread w built a salt from
LastCounter(w) == counters[w][Len(counters[w])]

\* in every state: the salt of the current iteration is the submitter's 20
\* bytes, the thread's pepper, and the counter in 8 bytes, most significant
\* first (the counters of the model are below 256: 7 zero bytes and the counter)
C11_SaltState ==
  /\ \A w \in Threads : pc[w] \in AfterDerive =>
       /\ Len(salt[w]) = 32
       /\ SubSeq(salt[w], 1, 20) = submitter
       /\ SubSeq(salt[w], 21, 24) = pepper[w]
       /\ LastCounter(w) < 256
       /\ SubSeq(salt[w], 25, 32) = Zeros(7) \o <<LastCounter(w)>>
       /\ pc[w] \in {"lock", "compare", "replace", "print"} => LastCounter(w) = rand[w]
  /\ \A k \in 1..Len(attempts) : SubSeq(attempts[k][3], 1, 20) = submitter

\* in every step: the pepper changes only where the thread starts, and a new
\* salt differs from the thread's previous one in the counter bytes only
C11_SaltStep ==
  \A w \in Threads :
    /\ pc[w] # "start" => pepper'[w] = pepper[w]
    /\ (salt'[w] # salt[w] /\ counters[w] # <<>>) =>
         /\ SubSeq(salt'[w], 1, 24) = SubSeq(salt[w], 1, 24)
         /\ SubSeq(salt'[w], 25, 32) # SubSeq(salt[w], 25, 32)

\* C11: in every iteration of every thread the salt is submitter (bytes
\* 0..20), the thread's pepper (bytes 20..24) and the thread's current counter
\* as 8 big-endian bytes (bytes 24..32); submitter and pepper are the same in
\* every iteration, only the counter bytes change.
C11_SaltLayout == []C11_SaltState /\ [][C11_SaltStep]_vars

\* a thread in its second iteration, with a counter other than its first
C11_Witness ==
  \E w \in Threads :
    /\ pc[w] = "lock"
    /\ Len(counters[w]) = 2
    /\ counters[w][1] # rand[w]
    /\ salt[w][32] = rand[w]
    /\ rand[w] > 0

\* C15 as stated: derivation and scoring happen without the lock, and the
\* lock is no longer held when the thread advances its counter.
C15_ReleasedBeforeAdvance ==
  [][\A w \in Threads :
       /\ (salt'[w] # salt[w] \/ address'[w] # address[w] \/ score'[w] # score[w])
            => w \notin locked_by
       /\ (pc[w] = "advance" /\ rand'[w] # rand[w]) => w \notin locked_by]_vars

\* C15, amended: derivation and scoring happen without the lock; the lock is
\* held for the comparison, the replacement, the notification and also while
\* the counter advances by the thread count; it is released after the advance,
\* at the end of the iteration.
C15_ReleasedAfterAdvance ==
  [][\A w \in Threads :
       /\ (salt'[w] # salt[w] \/ address'[w] # address[w] \/ score'[w] # score[w])
            => (w \notin locked_by /\ w \notin locked_by')
       /\ pc[w] \in UnderLock => w \in locked_by
       /\ pc[w] \in {"start", "loop", "lock"} => w \notin locked_by
       /\ (pc[w] = "advance" /\ pc'[w] # "advance") =>
            /\ rand'[w] = rand[w] + num_threads
            /\ w \in locked_by /\ w \in locked_by'
       /\ (w \in locked_by /\ w \notin locked_by') =>
            /\ pc'[w] = "loop"
            /\ rand'[w] = rand[w]
            /\ rand[w] = LastCounter(w) + num_threads]_vars

\* a thread that has advanced its counter and still holds the lock
C15_Witness ==
  \E w \in Threads :
    /\ pc[w] = "unlock"
    /\ w \in locked_by
    /\ rand[w] = LastCounter(w) + num_threads

\* C16: as long as no thread has failed, no thread has left its loop, main has
\* spawned one thread per index and, once it has spawned them all, is still in
\* its first join.
C16_NoEndWithoutFailure ==
  ~poisoned =>
    /\ \A w \in Threads : pc[w] # "panicked"
    /\ main_pc \in {"spawn", "join"}
    /\ join_i = 0
    /\ Len(handles) <= num_threads
    /\ \A k \in 1..Len(handles) : handles[k] = k - 1
    /\ (main_pc = "join") <=> (Len(handles) = num_threads)

\* main in its join, every thread through all its followed iterations, and
\* nothing has failed
C16_Witness ==
  /\ ~poisoned
  /\ main_pc = "join"
  /\ num_threads = MaxThreads
  /\ \A w \in Threads : pc[w] = "loop" /\ Len(counters[w]) = MaxIter

\* in every state after a thread panicked with the lock: nobody holds or gets
\* the lock, best_address is what the last replacement stored, main has not
\* returned
C17_PoisonedState ==
  poisoned =>
    /\ locked_by = {}
    /\ \A w \in Threads : pc[w] \notin UnderLock
    /\ \E w \in Threads : pc[w] = "panicked"
    /\ replacements # <<>>
    /\ best_address = <<replacements[Len(replacements)][1],
                        replacements[Len(replacements)][2]>>
    /\ main_pc # "returned"
    /\ join_i = 0

\* in every step after that: best_address and the output stay, the mutex stays
\* poisoned, a thread that leaves lock() has panicked, and a panicked thread
\* stays so
C17_PoisonedStep ==
  poisoned =>
    /\ poisoned'
    /\ best_address' = best_address
    /\ replacements' = replacements
    /\ stdout' = stdout
    /\ \A w \in Threads :
         /\ (pc[w] = "lock" /\ pc'[w] # "lock") => pc'[w] = "panicked"
         /\ pc[w] = "panicked" => pc'[w] = "panicked"

\* C17: once a thread has panicked while holding the lock, every later lock()
\* of another thread panics that thread, best_address is never updated again,
\* no thread is restarted, and main ends by panicking in join().unwrap().
C17_PoisonIsFatal ==
  /\ []C17_PoisonedState
  /\ [][C17_PoisonedStep]_vars
  /\ (poisoned ~> (main_pc = "panicked"))

\* two threads: one panicked in println!, the other in lock(), and main in join
C17_Witness ==
  /\ poisoned
  /\ num_threads = 2
  /\ \A w \in Threads : pc[w] = "panicked"
  /\ main_pc = "panicked"

\* C19: whenever the stored score is above 0, the stored address is the one
\* derived from a salt some thread built, and the stored score is
\* compute_score of the stored address.
C19_StoredPairConsistent ==
  best_address[2] > 0 =>
    \E w \in Threads : \E i \in 1..Len(counters[w]) :
      LET k == PepperIndex(pepper[w])
          c == counters[w][i]
      IN /\ best_address[1] = derived[k][c + 1]
         /\ best_address[2] = derived_score[k][c + 1]

\* the pair has been replaced twice
C19_Witness ==
  /\ Len(replacements) >= 2
  /\ best_address[2] > 0
  /\ best_address[2] = replacements[Len(replacements)][2]
  /\ best_address[1] # deployer

=============================================================================
